---------------------------- MODULE Spec2Model ----------------------------
(***************************************************************************)
(* Model of src/main.py: the DSLD ingest job.  One process: the module     *)
(* level configuration check, then main(): download_and_unzip_data,        *)
(* combine_csvs_to_dataframe, create_client, upload_dataframe_to_supabase. *)
(* The remote archive, the process environment and the destination table   *)
(* 'dsld_supplements' are the environment; the destination persists across *)
(* runs of the script.                                                     *)
(***************************************************************************)
EXTENDS Integers, Sequences, FiniteSets, TLC

(* ------------------------------ bounds --------------------------------- *)
\* Largest number of members in the downloaded archive.
MaxMembers == 2
\* Number of times the script is run against the same archive and table.
MaxRuns == 2

(* ------------------------- program constants --------------------------- *)
\* batch_size = 500
batch_size == 500

\* TARGET_FILENAME_CONTAINS = "ProductOverview", as a sequence of characters
TARGET_FILENAME_CONTAINS ==
    <<"P","r","o","d","u","c","t","O","v","e","r","v","i","e","w">>

\* the literal '.csv' of filename.endswith('.csv')
CsvSuffix == <<".","c","s","v">>

\* the missing-value sentinels of pandas/numpy and Python's None
NaN == "nan"
NA == "<NA>"
None == "None"

\* the keys of column_mapping that the model's tables carry
column_mapping ==
    [c \in {"DSLD ID", "Product Name"} |-> c]

(* ---------------------------- environment ------------------------------ *)
\* Values os.environ.get can give for a configuration variable: unset (None),
\* set to the empty string, or set.
EnvValues == {None, "", "set"}

\* Member names, as sequences of characters.
Name_PO1 == TARGET_FILENAME_CONTAINS \o <<"_","1">> \o CsvSuffix
Name_PO2 == <<"d","/">> \o TARGET_FILENAME_CONTAINS \o CsvSuffix
Name_POtxt == TARGET_FILENAME_CONTAINS \o <<".","t","x","t">>
Name_Other == <<"L","a","b","e","l">> \o CsvSuffix

\* A CSV file of the archive is described by its number of data rows n and a
\* variant v that shifts its cells; ids are unique inside one file and are
\* shared between files.
Cells == <<"a", NaN, "b", NA>>

CsvRow(i, v) ==
    [c \in {"DSLD ID", "Product Name"} |->
        IF c = "DSLD ID" THEN ToString(i) ELSE Cells[((i + v) % 4) + 1]]

CsvRows(f) == [i \in 1..f.n |-> CsvRow(i, f.v)]

Files == { [n |-> 0, v |-> 0], [n |-> 250, v |-> 0], [n |-> 501, v |-> 1] }

Members ==
    { [filename |-> nm, file |-> f] : nm \in {Name_PO1, Name_PO2}, f \in Files }
    \cup
    { [filename |-> nm, file |-> [n |-> 250, v |-> 0]] :
        nm \in {Name_POtxt, Name_Other} }

Archives == UNION { [1..k -> Members] : k \in 0..MaxMembers }

\* Tables the destination may be before the first run: a row no archive
\* carries and a row whose id the archives carry with other values.
InitialTables ==
    { { [c \in {"DSLD ID", "Product Name"} |->
            IF c = "DSLD ID" THEN "0" ELSE "kept"],
        [c \in {"DSLD ID", "Product Name"} |->
            IF c = "DSLD ID" THEN "1" ELSE "old"] } }

(* ------------------------------ helpers -------------------------------- *)
Min(a, b) == IF a < b THEN a ELSE b

Range(s) == { s[k] : k \in DOMAIN s }

RECURSIVE Flatten(_)
Flatten(ss) == IF ss = <<>> THEN <<>> ELSE Head(ss) \o Flatten(Tail(ss))

\* Python's `t in s` on strings
Contains(s, t) ==
    \E k \in 0..(Len(s) - Len(t)) : SubSeq(s, k + 1, k + Len(t)) = t

\* Python's s.endswith(t)
EndsWith(s, t) ==
    /\ Len(s) >= Len(t)
    /\ SubSeq(s, Len(s) - Len(t) + 1, Len(s)) = t

\* Python's `not v` for a configuration value
Falsy(v) == v \in {None, ""}


(* ------------------------- download_and_unzip_data --------------------- *)
\* The condition of the loop over zip_file.infolist().
Matches(filename) ==
    /\ Contains(filename, TARGET_FILENAME_CONTAINS)
    /\ EndsWith(filename, CsvSuffix)

\* zip_file.open(name) with a name: ZipFile.getinfo(name) resolves the name
\* through the archive's name table, in which a later member of the same
\* name replaces an earlier one.  A handle is identified by the index of the
\* member whose content it reads.
ZipOpen(zip, filename) ==
    CHOOSE k \in DOMAIN zip :
        /\ zip[k].filename = filename
        /\ \A m \in DOMAIN zip : zip[m].filename = filename => m <= k

\* The list csv_files built by the loop, for the members 1..k of the archive.
RECURSIVE CsvFilesUpTo(_, _)
CsvFilesUpTo(zip, k) ==
    IF k = 0 THEN <<>>
    ELSE IF Matches(zip[k].filename)
         THEN Append(CsvFilesUpTo(zip, k - 1), ZipOpen(zip, zip[k].filename))
         ELSE CsvFilesUpTo(zip, k - 1)

\* download_and_unzip_data with the except clauses letting the listing go on
download_and_unzip_data_Uncaught(zip, outcome) == CsvFilesUpTo(zip, Len(zip))

\* The value download_and_unzip_data returns, by the outcome of the
\* transfer: "RequestException" (network error, bad status), "BadZipFile",
\* or "ok".
download_and_unzip_data(zip, outcome) ==
    IF outcome = "ok" THEN CsvFilesUpTo(zip, Len(zip)) ELSE <<>>

(* ------------------------ combine_csvs_to_dataframe -------------------- *)
\* pd.read_csv on a handle: the rows of the member the handle reads.
read_csv(zip, handle) == CsvRows(zip[handle].file)

\* DataFrame.rename(columns=column_mapping): a column the mapping names gets
\* the mapped name, any other column keeps its name.
RenamedColumn(c) ==
    IF c \in DOMAIN column_mapping THEN column_mapping[c] ELSE c

RenameRow(row) ==
    [d \in { RenamedColumn(c) : c \in DOMAIN row } |->
        row[CHOOSE c \in DOMAIN row : RenamedColumn(c) = d]]

combine_csvs_to_dataframe(zip, csv_files) ==
    IF csv_files = <<>> THEN <<>>
    ELSE LET dataframes == [k \in DOMAIN csv_files |-> read_csv(zip, csv_files[k])]
             combined_df == Flatten(dataframes)
         IN  [k \in DOMAIN combined_df |-> RenameRow(combined_df[k])]

(* ----------------------- upload_dataframe_to_supabase ------------------ *)
\* df.replace({np.nan: None}): pd.NA left as it is
CleanCell_NaNOnly(v) == IF v = NaN THEN None ELSE v

\* df.replace({pd.NA: None, np.nan: None}) on one cell
CleanCell(v) == IF v \in {NA, NaN} THEN None ELSE v

\* df.replace(...).to_dict(orient='records')
CleanRecords(df) ==
    [k \in DOMAIN df |-> [c \in DOMAIN df[k] |-> CleanCell(df[k][c])]]

\* records[i:i + batch_size - 1]
BatchAt_ShortByOne(recs, i) ==
    SubSeq(recs, i + 1, Min(i + batch_size - 1, Len(recs)))

\* records[i:i + batch_size]
BatchAt(recs, i) == SubSeq(recs, i + 1, Min(i + batch_size, Len(recs)))

\* The rows of rows[lo..hi] by key "DSLD ID", a later row replacing an
\* earlier row of the same key (lo <= hi).
RECURSIVE LastByKey(_, _, _)
LastByKey(rows, lo, hi) ==
    IF lo = hi THEN rows[lo]["DSLD ID"] :> rows[lo]
    ELSE LET mid == (lo + hi) \div 2
         IN  LastByKey(rows, mid + 1, hi) @@ LastByKey(rows, lo, mid)

\* insert(batch) in place of upsert: nothing is replaced
Upsert_InsertOnly(table, batch) == table \cup Range(batch)

\* table('dsld_supplements').upsert(batch, on_conflict='"DSLD ID"') when it
\* succeeds, for a non-empty batch: a row of the table whose key occurs in
\* the batch is replaced, the other rows stay, and for each key of the batch
\* its last row is stored.
Upsert(table, batch) ==
    LET new == LastByKey(batch, 1, Len(batch))
    IN  { r \in table : r["DSLD ID"] \notin DOMAIN new } \cup Range(new)

(* ------------------------------- state --------------------------------- *)
VARIABLES
    SUPABASE_URL,       \* os.environ.get("SUPABASE_URL")
    SUPABASE_KEY,       \* os.environ.get("SUPABASE_SERVICE_KEY")
    zip_file,           \* the archive behind DOWNLOAD_URL
    dest,               \* rows of the table 'dsld_supplements'
    pc,                 \* position of the process
    csv_file_objects,   \* main's list of handles
    product_dataframe,  \* main's combined table
    records,            \* the Writer's cleaned row records
    i,                  \* the Writer's loop index
    out,                \* lines printed in this run
    exit_status,        \* process exit status, -1 while running
    calls,              \* calls made in this run, in order
    dest0,              \* the table when this run started
    run,                \* number of the current run
    prev_ok             \* the previous run uploaded all its batches

vars == << SUPABASE_URL, SUPABASE_KEY, zip_file, dest, pc, csv_file_objects,
           product_dataframe, records, i, out, exit_status, calls, dest0,
           run, prev_ok >>

env == << SUPABASE_URL, SUPABASE_KEY, zip_file >>

Line(msg) == [msg |-> msg]
Call(op) == [op |-> op, batch |-> <<>>, raised |-> FALSE]
UpsertCall(batch, raised) == [op |-> "upsert", batch |-> batch, raised |-> raised]

Init ==
    /\ SUPABASE_URL \in EnvValues
    /\ SUPABASE_KEY \in EnvValues
    /\ zip_file \in Archives
    /\ dest \in InitialTables
    /\ dest0 = dest
    /\ pc = "import"
    /\ csv_file_objects = <<>>
    /\ product_dataframe = <<>>
    /\ records = <<>>
    /\ i = 0
    /\ out = <<>>
    /\ exit_status = -1
    /\ calls = <<>>
    /\ run = 1
    /\ prev_ok = FALSE

\* lines 22-24: a configuration value is missing
ConfigMissing ==
    /\ pc = "import"
    /\ Falsy(SUPABASE_URL) \/ Falsy(SUPABASE_KEY)
    /\ out' = Append(out, Line("Error: Supabase URL and Key must be set in your .env file."))
    /\ exit_status' = 0
    /\ pc' = "exited"
    /\ UNCHANGED << env, dest, csv_file_objects, product_dataframe, records, i,
                    calls, dest0, run, prev_ok >>

\* lines 22, 165-166: the configuration is present and main() is called
ConfigPresent ==
    /\ pc = "import"
    /\ ~(Falsy(SUPABASE_URL) \/ Falsy(SUPABASE_KEY))
    /\ pc' = "download"
    /\ UNCHANGED << env, dest, csv_file_objects, product_dataframe, records, i,
                    out, exit_status, calls, dest0, run, prev_ok >>

\* main without the early return of lines 151-153
Download_NoEarlyReturn(outcome) ==
    /\ pc = "download"
    /\ csv_file_objects' = download_and_unzip_data(zip_file, outcome)
    /\ calls' = Append(calls, Call("download_and_unzip_data"))
    /\ out' = Append(out, Line("Downloading data"))
    /\ pc' = "combine"
    /\ UNCHANGED << env, dest, product_dataframe, records, i, exit_status, dest0,
                    run, prev_ok >>

\* main, lines 149-153, for one outcome of the transfer
Download(outcome) ==
    /\ pc = "download"
    /\ LET result == download_and_unzip_data(zip_file, outcome)
           printed ==
               IF outcome = "RequestException"
                 THEN <<Line("Error downloading the file")>>
               ELSE IF outcome = "BadZipFile"
                 THEN <<Line("Error: The downloaded file is not a valid zip file.")>>
               ELSE IF result = <<>>
                 THEN <<Line("No 'ProductOverview' CSV files found in the zip archive.")>>
               ELSE [k \in DOMAIN result |-> Line("Found matching file")]
       IN  /\ csv_file_objects' = result
           /\ calls' = Append(calls, Call("download_and_unzip_data"))
           /\ IF result = <<>>
                THEN /\ out' = out \o <<Line("Downloading data")>> \o printed
                                \o <<Line("Script finished due to no files being found.")>>
                     /\ exit_status' = 0
                     /\ pc' = "exited"
                ELSE /\ out' = out \o <<Line("Downloading data")>> \o printed
                     /\ exit_status' = exit_status
                     /\ pc' = "combine"
    /\ UNCHANGED << env, dest, product_dataframe, records, i, dest0, run, prev_ok >>

DownloadRequestError == Download("RequestException")
DownloadBadZip == Download("BadZipFile")
DownloadOk == Download("ok")

\* main, line 156
Combine ==
    /\ pc = "combine"
    /\ product_dataframe' = combine_csvs_to_dataframe(zip_file, csv_file_objects)
    /\ calls' = Append(calls, Call("combine_csvs_to_dataframe"))
    /\ out' = out \o <<Line("Combining CSV files"), Line("Successfully combined data.")>>
    /\ pc' = "upload"
    /\ UNCHANGED << env, dest, csv_file_objects, records, i, exit_status, dest0,
                    run, prev_ok >>

\* main, lines 159-162, with upload_dataframe_to_supabase lines 105-107
UploadEmpty ==
    /\ pc = "upload"
    /\ product_dataframe = <<>>
    /\ calls' = calls \o <<Call("create_client"), Call("upload_dataframe_to_supabase")>>
    /\ out' = out \o <<Line("DataFrame is empty. Nothing to upload."),
                       Line("Script finished.")>>
    /\ exit_status' = 0
    /\ pc' = "exited"
    /\ UNCHANGED << env, dest, csv_file_objects, product_dataframe, records, i,
                    dest0, run, prev_ok >>

\* main, lines 159-160, with upload_dataframe_to_supabase lines 109-119
UploadPrepare ==
    /\ pc = "upload"
    /\ product_dataframe # <<>>
    /\ calls' = calls \o <<Call("create_client"), Call("upload_dataframe_to_supabase")>>
    /\ out' = Append(out, Line("Preparing to upload data to Supabase in batches..."))
    /\ records' = CleanRecords(product_dataframe)
    /\ i' = 0
    /\ pc' = "loop"
    /\ UNCHANGED << env, dest, csv_file_objects, product_dataframe, exit_status,
                    dest0, run, prev_ok >>

\* the iteration without the delay of line 135
UpsertOk_NoSleep ==
    /\ pc = "loop"
    /\ i < Len(records)
    /\ LET batch == BatchAt(records, i)
       IN  /\ dest' = Upsert(dest, batch)
           /\ calls' = Append(calls, UpsertCall(batch, FALSE))
    /\ out' = out \o <<Line("Uploading batch"), Line("Batch uploaded successfully.")>>
    /\ i' = i + batch_size
    /\ pc' = "loop"
    /\ UNCHANGED << env, csv_file_objects, product_dataframe, records,
                    exit_status, dest0, run, prev_ok >>

\* lines 119-133: one iteration whose upsert call returns
UpsertOk ==
    /\ pc = "loop"
    /\ i < Len(records)
    /\ LET batch == BatchAt(records, i)
       IN  /\ dest' = Upsert(dest, batch)
           /\ calls' = Append(calls, UpsertCall(batch, FALSE))
    /\ out' = out \o <<Line("Uploading batch"), Line("Batch uploaded successfully.")>>
    /\ pc' = "sleep"
    /\ UNCHANGED << env, csv_file_objects, product_dataframe, records, i,
                    exit_status, dest0, run, prev_ok >>

\* the try/except placed inside the loop: the error is printed and the loop
\* goes on with the next batch
UpsertRaises_Continues ==
    /\ pc = "loop"
    /\ i < Len(records)
    /\ calls' = Append(calls, UpsertCall(BatchAt(records, i), TRUE))
    /\ out' = out \o <<Line("Uploading batch"),
                       Line("An error occurred during the Supabase upload")>>
    /\ pc' = "sleep"
    /\ UNCHANGED << env, dest, csv_file_objects, product_dataframe, records, i,
                    exit_status, dest0, run, prev_ok >>

\* lines 119-129, 139-141, then main line 162: the upsert call raises
UpsertRaises ==
    /\ pc = "loop"
    /\ i < Len(records)
    /\ calls' = Append(calls, UpsertCall(BatchAt(records, i), TRUE))
    /\ out' = out \o <<Line("Uploading batch"),
                       Line("An error occurred during the Supabase upload"),
                       Line("Script finished.")>>
    /\ exit_status' = 0
    /\ pc' = "exited"
    /\ UNCHANGED << env, dest, csv_file_objects, product_dataframe, records, i,
                    dest0, run, prev_ok >>

\* line 135, then the loop's step
Sleep ==
    /\ pc = "sleep"
    /\ calls' = Append(calls, Call("sleep"))
    /\ i' = i + batch_size
    /\ pc' = "loop"
    /\ UNCHANGED << env, dest, csv_file_objects, product_dataframe, records, out,
                    exit_status, dest0, run, prev_ok >>

\* line 137, then main line 162: the loop is exhausted
UploadDone ==
    /\ pc = "loop"
    /\ i >= Len(records)
    /\ out' = out \o <<Line("All batches uploaded successfully."),
                       Line("Script finished.")>>
    /\ exit_status' = 0
    /\ pc' = "exited"
    /\ UNCHANGED << env, dest, csv_file_objects, product_dataframe, records, i,
                    calls, dest0, run, prev_ok >>

AllUploaded == Line("All batches uploaded successfully.") \in Range(out)

\* The script is started again: a fresh process on the same environment,
\* archive and destination table.
Rerun ==
    /\ pc = "exited"
    /\ run < MaxRuns
    /\ run' = run + 1
    /\ prev_ok' = AllUploaded
    /\ dest0' = dest
    /\ pc' = "import"
    /\ csv_file_objects' = <<>>
    /\ product_dataframe' = <<>>
    /\ records' = <<>>
    /\ i' = 0
    /\ out' = <<>>
    /\ exit_status' = -1
    /\ calls' = <<>>
    /\ UNCHANGED << env, dest >>

Next ==
    \/ ConfigMissing
    \/ ConfigPresent
    \/ DownloadRequestError
    \/ DownloadBadZip
    \/ DownloadOk
    \/ Combine
    \/ UploadEmpty
    \/ UploadPrepare
    \/ UpsertOk
    \/ UpsertRaises
    \/ Sleep
    \/ UploadDone
    \/ Rerun

Spec == Init /\ [][Next]_vars

(* ------------------------ vocabulary of the claims --------------------- *)
Ops == [k \in DOMAIN calls |-> calls[k].op]

\* positions of the upsert calls of this run, and the batches they carried
UpsertAt == { k \in DOMAIN calls : calls[k].op = "upsert" }
SentBatches == LET u == SelectSeq(calls, LAMBDA c : c.op = "upsert")
               IN  [k \in DOMAIN u |-> u[k].batch]
RaisedAt == { k \in UpsertAt : calls[k].raised }

Printed(msg) == Line(msg) \in Range(out)

Exited == pc = "exited"
Completed == Exited /\ Printed("All batches uploaded successfully.")
TransferFailed ==
    \/ Printed("Error downloading the file")
    \/ Printed("Error: The downloaded file is not a valid zip file.")
Fetched == Ops # <<>> /\ ~TransferFailed

\* ceil(r / b), computed without the code's expression
CeilDiv(r, b) == CHOOSE n \in 0..r : n * b >= r /\ (n - 1) * b < r

\* the k-th contiguous slice of b rows of a row sequence
Slice(rows, k, b) == SubSeq(rows, (k - 1) * b + 1, Min(k * b, Len(rows)))

\* a table after the batches 1..n of the records were upserted in order
RECURSIVE UpsertedThrough(_, _, _)
UpsertedThrough(table, rows, n) ==
    IF n = 0 THEN table
    ELSE Upsert(UpsertedThrough(table, rows, n - 1), Slice(rows, n, batch_size))

\* a row as the destination is to store it: every missing cell is the null
\* marker, every other cell and every column name is unchanged
Stored(row) == [c \in DOMAIN row |-> IF row[c] \in {NaN, NA} THEN None ELSE row[c]]

\* index of the last row of rows[lo..hi] for every key of that stretch
RECURSIVE LastIndex(_, _, _)
LastIndex(rows, lo, hi) ==
    IF lo = hi THEN rows[lo]["DSLD ID"] :> lo
    ELSE LET mid == (lo + hi) \div 2
         IN  LastIndex(rows, mid + 1, hi) @@ LastIndex(rows, lo, mid)

Keys(rows) == { r["DSLD ID"] : r \in rows }

(* -------------------------------- C1 ----------------------------------- *)
\* C1: the batches the Writer forms are contiguous slices of the records in
\* order: what has been sent so far is a prefix of the records, every batch
\* but the last has batch_size rows, every batch has between 1 and
\* batch_size rows, and when the loop is exhausted there are exactly
\* ceil(R / batch_size) batches whose concatenation is the records.
C1_BatchesPartitionRecords ==
    LET sent == SentBatches
        all == Flatten(sent)
    IN  /\ Len(all) <= Len(records)
        /\ all = SubSeq(records, 1, Len(all))
        /\ \A k \in DOMAIN sent :
              /\ Len(sent[k]) \in 1..batch_size
              /\ k < Len(sent) => Len(sent[k]) = batch_size
        /\ Completed =>
              /\ Len(sent) = CeilDiv(Len(records), batch_size)
              /\ all = records

C1_Witness ==
    /\ Completed
    /\ Len(records) > 2 * batch_size
    /\ Len(records) % batch_size # 0
    /\ Len(SentBatches) = 3

(* -------------------------------- C2 ----------------------------------- *)
\* C2: when the upsert call of batch k raises, it is the last call of the
\* run (no later batch is sent, batch k is not sent again) and the
\* destination is the table of the start of the run with exactly the batches
\* 1..k-1 upserted in order.
C2_RaiseAbortsAndKeepsEarlierBatches ==
    \A p \in RaisedAt :
        LET k == Cardinality({ q \in UpsertAt : q <= p })
        IN  /\ p = Len(calls)
            /\ calls[p].batch = Slice(records, k, batch_size)
            /\ dest = UpsertedThrough(dest0, records, k - 1)

C2_Witness ==
    /\ Exited
    /\ \E p \in RaisedAt : Cardinality({ q \in UpsertAt : q <= p }) = 2
    /\ Len(records) > 2 * batch_size
    /\ dest # dest0

(* -------------------------------- C3 ----------------------------------- *)
\* C3: when an upsert call raised, main ends the run in a terminal state
\* that differs from the one of a completed run: it does not report normal
\* completion ("Script finished." with exit status 0).
C3_UploadErrorEndsInFailureState ==
    (Exited /\ RaisedAt # {}) =>
        ~(exit_status = 0 /\ out[Len(out)] = Line("Script finished."))

(* -------------------------------- C4 ----------------------------------- *)
\* C4: when download_and_unzip_data returned an empty list the run has
\* ended with no other call made and the destination untouched; the Builder
\* is called only second, after a Fetcher call that returned a non-empty
\* list, and the client and the Writer only after the Builder.
C4_NoWorkWithoutFiles ==
    /\ (Ops # <<>> /\ csv_file_objects = <<>>) =>
          /\ Exited
          /\ Ops = <<"download_and_unzip_data">>
          /\ dest = dest0
    /\ \A k \in DOMAIN Ops :
          /\ Ops[k] = "download_and_unzip_data" => k = 1
          /\ Ops[k] = "combine_csvs_to_dataframe" =>
                k = 2 /\ Ops[1] = "download_and_unzip_data" /\ csv_file_objects # <<>>
          /\ Ops[k] \in {"create_client", "upload_dataframe_to_supabase",
                         "upsert", "sleep"} =>
                k > 2 /\ Ops[2] = "combine_csvs_to_dataframe"

C4_Witness ==
    /\ Exited
    /\ Fetched
    /\ zip_file # <<>>
    /\ csv_file_objects = <<>>
    /\ Printed("Script finished due to no files being found.")

(* -------------------------------- C5 ----------------------------------- *)
\* C5: the destination never holds two rows of the same "DSLD ID", and a
\* run that uploads all its batches right after a run that uploaded all its
\* batches leaves the destination as that earlier run left it: the same
\* rows, hence the same row count.
C5_SecondRunChangesNothing ==
    /\ Cardinality(Keys(dest)) = Cardinality(dest)
    /\ (run >= 2 /\ prev_ok /\ Completed) =>
          /\ dest = dest0
          /\ Cardinality(dest) = Cardinality(dest0)

C5_Witness ==
    /\ run = 2
    /\ prev_ok
    /\ Completed
    /\ Len(csv_file_objects) = 2
    /\ csv_file_objects[1] # csv_file_objects[2]
    /\ Cardinality(Keys(Range(records))) < Len(records)
    /\ Cardinality(Range(records)) = Len(records)

(* -------------------------------- C6 ----------------------------------- *)
\* C6: after a transfer that succeeded the Fetcher's list holds one handle
\* per matching member, each reading its own member, in archive-listing
\* order, and none for the other members.
C6_OneHandlePerMatchingMember ==
    Fetched =>
        csv_file_objects =
            SelectSeq([k \in DOMAIN zip_file |-> k],
                      LAMBDA k : /\ Contains(zip_file[k].filename, TARGET_FILENAME_CONTAINS)
                                 /\ EndsWith(zip_file[k].filename, CsvSuffix))

(* -------------------------------- C7 ----------------------------------- *)
\* C7: after a transfer failure or a malformed archive the Fetcher's result
\* is empty and the run has ended with "no files found" and exit status 0:
\* the Fetcher's call is the only call and the destination is untouched.
C7_TransferFailureEndsInNoData ==
    TransferFailed =>
        /\ csv_file_objects = <<>>
        /\ Exited
        /\ out[Len(out)] = Line("Script finished due to no files being found.")
        /\ exit_status = 0
        /\ Ops = <<"download_and_unzip_data">>
        /\ dest = dest0

C7_Witness ==
    /\ Exited
    /\ Printed("Error: The downloaded file is not a valid zip file.")
    /\ \E k \in DOMAIN zip_file : Matches(zip_file[k].filename)

(* -------------------------------- C8 ----------------------------------- *)
\* C8 as stated: after a run that uploaded all its batches every row of the
\* combined table is in the destination, its missing cells stored as the
\* null marker, and no batch sent carried a NaN or NA cell.
C8_EveryRowStored ==
    /\ \A b \in Range(SentBatches) : \A r \in Range(b) :
          \A c \in DOMAIN r : r[c] \notin {NaN, NA}
    /\ Completed =>
          \A k \in DOMAIN product_dataframe :
              Stored(product_dataframe[k]) \in dest

\* C8 as amended: the same for every row of the combined table that no
\* later row of the table repeats the "DSLD ID" of.
C8_EveryLastRowStored ==
    /\ \A b \in Range(SentBatches) : \A r \in Range(b) :
          \A c \in DOMAIN r : r[c] \notin {NaN, NA}
    /\ Completed =>
          LET last == LastIndex(product_dataframe, 1, Len(product_dataframe))
          IN  \A k \in DOMAIN product_dataframe :
                  last[product_dataframe[k]["DSLD ID"]] = k =>
                      Stored(product_dataframe[k]) \in dest

C8_Witness ==
    /\ Completed
    /\ Len(SentBatches) >= 2
    /\ \E k \in DOMAIN product_dataframe :
          /\ product_dataframe[k]["Product Name"] = NaN
          /\ Stored(product_dataframe[k]) \in dest
    /\ \E k \in DOMAIN product_dataframe :
          /\ product_dataframe[k]["Product Name"] = NA
          /\ Stored(product_dataframe[k]) \in dest

(* -------------------------------- C9 ----------------------------------- *)
\* C9: the k-th upsert call of a run carries the k-th slice of the records,
\* and an upsert call that is not the first of its run comes right after a
\* delay that comes right after the preceding upsert call, which returned
\* without raising.
C9_InOrderWithDelayBetween ==
    \A p \in UpsertAt :
        LET k == Cardinality({ q \in UpsertAt : q <= p })
        IN  /\ calls[p].batch = Slice(records, k, batch_size)
            /\ k > 1 =>
                  /\ calls[p - 1].op = "sleep"
                  /\ calls[p - 2].op = "upsert"
                  /\ ~calls[p - 2].raised

C9_Witness ==
    /\ Completed
    /\ Len(SentBatches) = 3
    /\ Len(SentBatches[1]) = batch_size
    /\ Len(SentBatches[2]) = batch_size
    /\ Len(SentBatches[3]) < batch_size

(* -------------------------------- C10 ---------------------------------- *)
\* C10: when SUPABASE_URL or SUPABASE_SERVICE_KEY is missing the process
\* ends with a non-zero exit status, having printed the diagnostic and made
\* no download and no upsert call.
C10_MissingConfigFailsBeforeWork ==
    ((Falsy(SUPABASE_URL) \/ Falsy(SUPABASE_KEY)) /\ Exited) =>
        /\ Printed("Error: Supabase URL and Key must be set in your .env file.")
        /\ exit_status # 0
        /\ Ops = <<>>
        /\ dest = dest0

=============================================================================
